---- MODULE Spec2Model ----
(***************************************************************************)
(* Model of tg-work-queue: the SQLite-backed task registry and reminder    *)
(* directory of database.py, the scheduler jobs of scheduler.py and the    *)
(* reminder callback that reads the registry.                              *)
(*                                                                         *)
(* Every Database method opens its own connection, runs its statements and *)
(* commits (or rolls back) before it returns, so each method is one atomic *)
(* step.  The methods are written as operators from a store value to the   *)
(* pair <store after, value returned>; the actions apply them to the       *)
(* variables.  created_at / updated_at hold wall-clock time, are never     *)
(* read by the code's logic, and are left out.                             *)
(***************************************************************************)
EXTENDS Integers, Sequences, FiniteSets

VARIABLES
    tasks,            \* rows of table tasks
    task_assignees,   \* rows of table task_assignees
    seq_counters,     \* rows of table seq_counters
    sqlite_sequence,  \* AUTOINCREMENT high-water mark of tasks.id
    reminders,        \* rows of table reminders
    jobs,             \* the jobs of the global AsyncIOScheduler
    input,            \* the URL handed to the extractor
    awaiting,         \* the coroutines suspended at an await
    issued,           \* history: per chat, what successful add_task calls returned
    last              \* history: the call that produced this state, and its result

store == <<tasks, task_assignees, seq_counters, sqlite_sequence>>
vars == <<tasks, task_assignees, seq_counters, sqlite_sequence, reminders, jobs,
          input, awaiting, issued, last>>

(***************************************************************************)
(* Bounds and input sets.                                                  *)
(***************************************************************************)
MaxTasks == 2      \* rows ever inserted into tasks

Chats == {7, 8}
TaskIds == {"repo/merge_requests/123", "repo/pull/45"}
Submissions ==
    { [task_id |-> "repo/merge_requests/123",
       url |-> "http://gitlab.example.com/group/repo/-/merge_requests/123",
       created_by |-> "@alice"],
      [task_id |-> "repo/merge_requests/123",
       url |-> "https://gitlab.example.org/team/repo/-/merge_requests/123",
       created_by |-> "Bob"],
      [task_id |-> "repo/pull/45",
       url |-> "https://github.com/owner/repo/pull/45",
       created_by |-> "@alice"] }

\* What is submitted where: chat 7 receives every submission, chat 8 only
\* Bob's, whose task_id chat 7 can hold too.
SubmissionsIn(chat_id) ==
    IF chat_id = 7 THEN Submissions ELSE {s \in Submissions : s.created_by = "Bob"}
SeqNums == 1..MaxTasks

\* assignees arguments: none; unsorted, with a repeated and an empty element;
\* and one disjoint from it.
AssigneeLists == {<<>>, <<"@b", "", "@a", "@b">>, <<"@c">>}

\* Optional[T]: None is the empty tuple, a value v is <<v>>.
None == <<>>
Some(v) == <<v>>

\* ORDER BY assignee: SQLite's BINARY collation on the handles used here.
Collation ==
    <<"", "@", "@a", "@b", "@bob", "@c", "a", "b", "d", "e", "g", "i", "n", "o",
      "s", "u">>

Rank(h) == CHOOSE i \in 1..Len(Collation) : Collation[i] = h

\* sqlite3 leaves PRAGMA foreign_keys off unless a connection turns it on;
\* _get_connection does not.
foreign_keys == FALSE

(***************************************************************************)
(* The store.                                                              *)
(***************************************************************************)
DB == [tasks |-> tasks, task_assignees |-> task_assignees,
       seq_counters |-> seq_counters, sqlite_sequence |-> sqlite_sequence]

\* The tables as _init_db creates them in a fresh file.
_init_db ==
    [tasks |-> {}, task_assignees |-> {}, seq_counters |-> {}, sqlite_sequence |-> 0]

\* Database.__init__ on a file that exists: CREATE TABLE IF NOT EXISTS keeps
\* the tables, then the legacy column is copied into an empty relation.
_migrate_assignees_unfiltered(db) ==
    IF db.task_assignees # {}
    THEN db
    ELSE [db EXCEPT !.task_assignees =
             {[task_id |-> t.id, assignee |-> t.assigned_to] : t \in db.tasks}]

_migrate_assignees(db) ==
    IF db.task_assignees # {}
    THEN db
    ELSE LET rows == {t \in db.tasks :
                         t.assigned_to # "unassigned" /\ t.assigned_to # ""}
         IN  [db EXCEPT !.task_assignees =
                 {[task_id |-> t.id, assignee |-> t.assigned_to] : t \in rows}]

RECURSIVE SortByRank(_)
SortByRank(S) ==
    IF S = {} THEN <<>>
    ELSE LET m == CHOOSE x \in S : \A y \in S : Rank(x) <= Rank(y)
         IN  <<m>> \o SortByRank(S \ {m})

\* ORDER BY seq_num DESC.
RECURSIVE SortBySeqNumDesc(_)
SortBySeqNumDesc(S) ==
    IF S = {} THEN <<>>
    ELSE LET m == CHOOSE x \in S : \A y \in S : x.seq_num >= y.seq_num
         IN  <<m>> \o SortBySeqNumDesc(S \ {m})

\* ORDER BY seq_num ASC.
RECURSIVE SortBySeqNum(_)
SortBySeqNum(S) ==
    IF S = {} THEN <<>>
    ELSE LET m == CHOOSE x \in S : \A y \in S : x.seq_num <= y.seq_num
         IN  <<m>> \o SortBySeqNum(S \ {m})

\* The number derived by counting the chat's rows instead of kept in a counter.
_get_next_seq_num_by_rows(db, chat_id) ==
    [db  |-> db,
     ret |-> Cardinality({t \in db.tasks : t.chat_id = chat_id}) + 1]

\* One counter for all chats: the WHERE chat_id = ? left out.
_get_next_seq_num_global(db, chat_id) ==
    IF db.seq_counters = {}
    THEN [db  |-> [db EXCEPT !.seq_counters = {[chat_id |-> chat_id, next_num |-> 2]}],
          ret |-> 1]
    ELSE LET row == CHOOSE r \in db.seq_counters : TRUE
         IN  [db  |-> [db EXCEPT !.seq_counters =
                          {[chat_id |-> row.chat_id, next_num |-> row.next_num + 1]}],
              ret |-> row.next_num]

\* The UPDATE of the counter row left out: the row stays at 2.
_get_next_seq_num_not_advanced(db, chat_id) ==
    LET rows == {r \in db.seq_counters : r.chat_id = chat_id}
    IN  IF rows = {}
        THEN [db  |-> [db EXCEPT !.seq_counters =
                          @ \cup {[chat_id |-> chat_id, next_num |-> 2]}],
              ret |-> 1]
        ELSE [db |-> db, ret |-> (CHOOSE r \in rows : TRUE).next_num]

\* Reads the chat's counter row; the first use inserts (chat_id, 2) and
\* returns 1, a later one stores next_num + 1 and returns next_num.
_get_next_seq_num(db, chat_id) ==
    LET rows == {r \in db.seq_counters : r.chat_id = chat_id}
    IN  IF rows = {}
        THEN [db  |-> [db EXCEPT !.seq_counters =
                          @ \cup {[chat_id |-> chat_id, next_num |-> 2]}],
              ret |-> 1]
        ELSE LET row == CHOOSE r \in rows : TRUE
             IN  [db  |-> [db EXCEPT !.seq_counters =
                              (@ \ {row}) \cup
                              {[chat_id |-> chat_id, next_num |-> row.next_num + 1]}],
                  ret |-> row.next_num]

_get_task_assignees(db, task_id) ==
    SortByRank({r.assignee : r \in {x \in db.task_assignees : x.task_id = task_id}})

\* The DELETE left out: the new elements are added to the old rows.
\* The DELETE with WHERE task_id = ? left out.
_set_task_assignees_all_tasks(db, task_id, assignees) ==
    [db EXCEPT !.task_assignees =
        {[task_id |-> task_id, assignee |-> assignees[i]] :
            i \in {j \in DOMAIN assignees : assignees[j] # ""}}]

_set_task_assignees_merge(db, task_id, assignees) ==
    [db EXCEPT !.task_assignees =
        @ \cup
        {[task_id |-> task_id, assignee |-> assignees[i]] :
            i \in {j \in DOMAIN assignees : assignees[j] # ""}}]

\* DELETE the task's rows, then INSERT every non-empty element; a repeated
\* element violates UNIQUE(task_id, assignee) and is skipped.
_set_task_assignees(db, task_id, assignees) ==
    [db EXCEPT !.task_assignees =
        {r \in @ : r.task_id # task_id} \cup
        {[task_id |-> task_id, assignee |-> assignees[i]] :
            i \in {j \in DOMAIN assignees : assignees[j] # ""}}]

\* The Task dataclass built from a row of tasks.
_row_to_task(db, row) ==
    [id |-> row.id, chat_id |-> row.chat_id, seq_num |-> row.seq_num,
     task_id |-> row.task_id, url |-> row.url,
     assignees |-> _get_task_assignees(db, row.id),
     created_by |-> row.created_by]

\* A schema without UNIQUE(chat_id, task_id).
IntegrityError_seq_only(db, chat_id, task_id, seq_num) ==
    \E t \in db.tasks : t.chat_id = chat_id /\ t.seq_num = seq_num

\* INSERT INTO tasks fails on UNIQUE(chat_id, task_id) or UNIQUE(chat_id, seq_num).
IntegrityError(db, chat_id, task_id, seq_num) ==
    \E t \in db.tasks :
        /\ t.chat_id = chat_id
        /\ (t.task_id = task_id \/ t.seq_num = seq_num)

\* A table without AUTOINCREMENT: the rowid is one more than the largest
\* id in the table.
NewRow_max_rowid(db, chat_id, seq_num, task_id, url, assignees, created_by) ==
    [id |-> IF db.tasks = {} THEN 1
            ELSE (CHOOSE t \in db.tasks : \A u \in db.tasks : u.id <= t.id).id + 1,
     chat_id |-> chat_id, seq_num |-> seq_num,
     task_id |-> task_id, url |-> url,
     assigned_to |-> IF assignees # <<>> THEN assignees[1] ELSE "unassigned",
     created_by |-> created_by]

\* The row add_task inserts, with the id AUTOINCREMENT gives it.
NewRow(db, chat_id, seq_num, task_id, url, assignees, created_by) ==
    [id |-> db.sqlite_sequence + 1, chat_id |-> chat_id, seq_num |-> seq_num,
     task_id |-> task_id, url |-> url,
     assigned_to |-> IF assignees # <<>> THEN assignees[1] ELSE "unassigned",
     created_by |-> created_by]

\* INSERT OR REPLACE in place of INSERT: the conflicting row is replaced.
add_task_replace(db, chat_id, task_id, url, assignees, created_by) ==
    LET a == _get_next_seq_num(db, chat_id)
        row == NewRow(a.db, chat_id, a.ret, task_id, url, assignees, created_by)
        kept == {t \in a.db.tasks : ~(t.chat_id = chat_id /\ t.task_id = task_id)}
        inserted == [a.db EXCEPT !.tasks = kept \cup {row}, !.sqlite_sequence = row.id]
    IN  [db |-> _set_task_assignees(inserted, row.id, assignees),
         ret |-> IF kept = a.db.tasks THEN Some(a.ret) ELSE None]

\* The IntegrityError caught inside the with-block: the counter's update is
\* committed, not rolled back.
add_task_no_rollback(db, chat_id, task_id, url, assignees, created_by) ==
    LET a == _get_next_seq_num(db, chat_id)
        row == NewRow(a.db, chat_id, a.ret, task_id, url, assignees, created_by)
        inserted == [a.db EXCEPT !.tasks = @ \cup {row}, !.sqlite_sequence = row.id]
    IN  IF IntegrityError(a.db, chat_id, task_id, a.ret)
        THEN [db |-> a.db, ret |-> None]
        ELSE [db |-> _set_task_assignees(inserted, row.id, assignees),
              ret |-> Some(a.ret)]

add_task(db, chat_id, task_id, url, assignees, created_by) ==
    LET a == _get_next_seq_num(db, chat_id)
        seq_num == a.ret
        row == NewRow(a.db, chat_id, seq_num, task_id, url, assignees, created_by)
        task_db_id == row.id
        inserted == [a.db EXCEPT !.tasks = @ \cup {row},
                                 !.sqlite_sequence = task_db_id]
    IN  IF IntegrityError(a.db, chat_id, task_id, seq_num)
        THEN [db |-> db, ret |-> None]     \* the with-block rolls back
        ELSE [db |-> _set_task_assignees(inserted, task_db_id, assignees),
              ret |-> Some(seq_num)]

get_tasks(db, chat_id) ==
    LET rows == SortBySeqNum({t \in db.tasks : t.chat_id = chat_id})
    IN  [i \in 1..Len(rows) |-> _row_to_task(db, rows[i])]

\* DELETE FROM tasks; the ON DELETE CASCADE of task_assignees acts only when
\* the connection enforces foreign keys.
DeleteTasks(db, gone) ==
    [db EXCEPT !.tasks = @ \ gone,
               !.task_assignees =
                   IF foreign_keys
                   THEN {r \in @ : r.task_id \notin {t.id : t \in gone}}
                   ELSE @]

\* The chat_id = ? condition left out of the SELECT and the DELETE.
remove_task_by_id_any_chat(db, chat_id, task_id) ==
    LET rows == {t \in db.tasks : t.task_id = task_id}
    IN  IF rows = {}
        THEN [db |-> db, ret |-> None]
        ELSE [db |-> DeleteTasks(db, rows),
              ret |-> Some(_row_to_task(db, CHOOSE t \in rows : TRUE))]

remove_task_by_id(db, chat_id, task_id) ==
    LET rows == {t \in db.tasks : t.chat_id = chat_id /\ t.task_id = task_id}
    IN  IF rows = {}
        THEN [db |-> db, ret |-> None]
        ELSE [db |-> DeleteTasks(db, rows),
              ret |-> Some(_row_to_task(db, CHOOSE t \in rows : TRUE))]

\* The chat_id = ? condition left out of the DELETE.
remove_task_by_seq_any_chat(db, chat_id, seq_num) ==
    LET rows == {t \in db.tasks : t.chat_id = chat_id /\ t.seq_num = seq_num}
    IN  IF rows = {}
        THEN [db |-> db, ret |-> None]
        ELSE [db |-> DeleteTasks(db, {t \in db.tasks : t.seq_num = seq_num}),
              ret |-> Some(_row_to_task(db, CHOOSE t \in rows : TRUE))]

remove_task_by_seq(db, chat_id, seq_num) ==
    LET rows == {t \in db.tasks : t.chat_id = chat_id /\ t.seq_num = seq_num}
    IN  IF rows = {}
        THEN [db |-> db, ret |-> None]
        ELSE [db |-> DeleteTasks(db, rows),
              ret |-> Some(_row_to_task(db, CHOOSE t \in rows : TRUE))]

\* The UPDATE of the legacy column left out of the update operations.
SetAssignedTo_not_rewritten(db, rows, assignees) == db

\* UPDATE tasks SET assigned_to = ... for the rows the WHERE clause selects.
SetAssignedTo(db, rows, assignees) ==
    LET assigned_to == IF assignees # <<>> THEN assignees[1] ELSE "unassigned"
    IN  [db EXCEPT !.tasks =
            (@ \ rows) \cup {[t EXCEPT !.assigned_to = assigned_to] : t \in rows}]

update_task_assignees_by_seq(db, chat_id, seq_num, assignees) ==
    LET rows == {t \in db.tasks : t.chat_id = chat_id /\ t.seq_num = seq_num}
    IN  IF rows = {}
        THEN [db |-> db, ret |-> None]
        ELSE LET row == CHOOSE t \in rows : TRUE
                 db2 == SetAssignedTo(_set_task_assignees(db, row.id, assignees),
                                      rows, assignees)
                 now == CHOOSE t \in db2.tasks :
                            t.chat_id = chat_id /\ t.seq_num = seq_num
             IN  [db |-> db2, ret |-> Some(_row_to_task(db2, now))]

\* The relation replaced and the legacy column left as it was.
update_task_assignees_by_id_relation_only(db, chat_id, task_id, assignees) ==
    LET rows == {t \in db.tasks : t.chat_id = chat_id /\ t.task_id = task_id}
    IN  IF rows = {}
        THEN [db |-> db, ret |-> None]
        ELSE LET row == CHOOSE t \in rows : TRUE
                 db2 == _set_task_assignees(db, row.id, assignees)
             IN  [db |-> db2, ret |-> Some(_row_to_task(db2, row))]

update_task_assignees_by_id(db, chat_id, task_id, assignees) ==
    LET rows == {t \in db.tasks : t.chat_id = chat_id /\ t.task_id = task_id}
    IN  IF rows = {}
        THEN [db |-> db, ret |-> None]
        ELSE LET row == CHOOSE t \in rows : TRUE
                 db2 == SetAssignedTo(_set_task_assignees(db, row.id, assignees),
                                      rows, assignees)
                 now == CHOOSE t \in db2.tasks :
                            t.chat_id = chat_id /\ t.task_id = task_id
             IN  [db |-> db2, ret |-> Some(_row_to_task(db2, now))]

(***************************************************************************)
(* The reminder directory (table reminders).                               *)
(***************************************************************************)
\* The upsert with enabled left out of DO UPDATE SET: an existing row keeps
\* its flag.
set_reminder_keep_enabled(rows, chat_id, cron_expression, enabled) ==
    {r \in rows : r.chat_id # chat_id} \cup
    {[chat_id |-> chat_id, cron_expression |-> cron_expression,
      enabled |-> IF \E r \in rows : r.chat_id = chat_id
                  THEN (CHOOSE r \in rows : r.chat_id = chat_id).enabled
                  ELSE enabled]}

\* INSERT ... ON CONFLICT(chat_id) DO UPDATE: one row per chat.
set_reminder(rows, chat_id, cron_expression, enabled) ==
    {r \in rows : r.chat_id # chat_id} \cup
    {[chat_id |-> chat_id, cron_expression |-> cron_expression, enabled |-> enabled]}

get_reminder(rows, chat_id) ==
    LET mine == {r \in rows : r.chat_id = chat_id}
    IN  IF mine = {} THEN None ELSE Some(CHOOSE r \in mine : TRUE)

\* The SELECT with WHERE enabled = 1 left out.
get_all_active_reminders_any(rows) == rows

get_all_active_reminders(rows) == {r \in rows : r.enabled}

\* The UPDATE with WHERE chat_id = ? left out.
disable_reminder_all_chats(rows, chat_id) ==
    [rows |-> {[r EXCEPT !.enabled = FALSE] : r \in rows},
     ret  |-> rows # {}]

disable_reminder(rows, chat_id) ==
    [rows |-> {IF r.chat_id = chat_id THEN [r EXCEPT !.enabled = FALSE] ELSE r :
                  r \in rows},
     ret  |-> \E r \in rows : r.chat_id = chat_id]

\* The DELETE reported as done whether or not a row matched.
delete_reminder_always_true(rows, chat_id) ==
    [rows |-> {r \in rows : r.chat_id # chat_id},
     ret  |-> TRUE]

delete_reminder(rows, chat_id) ==
    [rows |-> {r \in rows : r.chat_id # chat_id},
     ret  |-> \E r \in rows : r.chat_id = chat_id]

(***************************************************************************)
(* The scheduler.  A cron expression is the tuple of its whitespace-       *)
(* separated fields, which is what str.split() makes of it.                *)
(***************************************************************************)
CronExpressions ==
    { <<"0", "9", "*", "*", "*">>,
      <<"0", "9,17", "*", "*", "1-5">>,
      <<"0", "9", "*", "*">>,
      <<"60", "9", "*", "*", "*">> }

\* CronTrigger(minute=..., ...) raises ValueError for a field out of range;
\* of the fields used here only minute "60" is.
CronTriggerRaises(parts) == parts[1] = "60"

\* Removes the chat's job, then raises on a malformed expression (leaving the
\* chat without a job), else adds the job.
add_reminder_job(js, chat_id, cron_expression) ==
    LET removed == {j \in js : j.chat_id # chat_id}
    IN  IF Len(cron_expression) # 5 \/ CronTriggerRaises(cron_expression)
        THEN [jobs |-> removed, raised |-> TRUE]
        ELSE [jobs |-> removed \cup
                       {[chat_id |-> chat_id, cron_expression |-> cron_expression]},
              raised |-> FALSE]

\* The job is looked up and left in place.
remove_reminder_job_kept(js, chat_id) == js

remove_reminder_job(js, chat_id) == {j \in js : j.chat_id # chat_id}

\* Adds a job for each active reminder; an exception of add_reminder_job is
\* logged and the loop goes on.
RECURSIVE load_existing_reminders(_, _)
load_existing_reminders(js, rs) ==
    IF rs = {} THEN js
    ELSE LET r == CHOOSE x \in rs : TRUE
         IN  load_existing_reminders(
                 add_reminder_job(js, r.chat_id, r.cron_expression).jobs, rs \ {r})

\* A new process has a scheduler without jobs.
setup_scheduler(rows) == load_existing_reminders({}, get_all_active_reminders(rows))

\* Attribute access on a dataclass instance: a name that is no field raises
\* AttributeError.
HasAttr(obj, name) == name \in DOMAIN obj

\* A callback that sends its heading for an empty queue too.
send_reminder_on_empty_queue(db, chat_id) ==
    LET ts == get_tasks(db, chat_id)
    IN  IF \E i \in DOMAIN ts : ~HasAttr(ts[i], "assigned_to")
        THEN None
        ELSE Some([chat_id |-> chat_id,
                   text |-> [i \in DOMAIN ts |->
                               [seq_num |-> ts[i].seq_num, url |-> ts[i].url,
                                task_id |-> ts[i].task_id,
                                assigned_to |-> ts[i].assigned_to,
                                created_by |-> ts[i].created_by]]])

\* The callback of a chat's job.  Returns the message sent, or None when
\* nothing was sent: the queue is empty, or an exception was caught and
\* logged.
send_reminder(db, chat_id) ==
    LET ts == get_tasks(db, chat_id)
    IN  IF ts = <<>>
        THEN None
        ELSE IF \E i \in DOMAIN ts : ~HasAttr(ts[i], "assigned_to")
        THEN None
        ELSE Some([chat_id |-> chat_id,
                   text |-> [i \in DOMAIN ts |->
                               [seq_num |-> ts[i].seq_num, url |-> ts[i].url,
                                task_id |-> ts[i].task_id,
                                assigned_to |-> ts[i].assigned_to,
                                created_by |-> ts[i].created_by]]])

(***************************************************************************)
(* The bot: URLs, the command and extractor patterns, and the handlers of  *)
(* !wadd and !w.  A URL is its scheme and the tuple of the "/"-separated   *)
(* parts after "://" (the host first); no part is empty or holds           *)
(* whitespace.                                                             *)
(***************************************************************************)
MaxPath == 5       \* path segments after the host

Schemes == {"http", "https", "HTTP"}
Hosts == {"gitlab.example.com", "github.com"}
PathSegments == {"group", "repo", "-", "merge_requests", "pull", "45", "45x"}

\* The paths of exactly n parts.
RECURSIVE Paths(_)
Paths(n) ==
    IF n = 0 THEN {<<>>}
    ELSE {Append(p, s) : p \in Paths(n - 1), s \in PathSegments}

NoUrl == [scheme |-> "", segs |-> <<>>]

\* str.lower() on the schemes used here.
Lower(scheme) == IF scheme = "HTTP" THEN "http" ELSE scheme

\* (\d+) at the start of a part: the longest run of leading digits, "" if
\* the part starts with no digit.
LeadingDigits(seg) ==
    IF seg \in {"45", "45x"} THEN "45" ELSE IF seg = "46" THEN "46" ELSE ""

\* WADD_PATTERN_*: (https?://\S+) under re.IGNORECASE.
WADD_PATTERN(url) == Lower(url.scheme) \in {"http", "https"} /\ url.segs # <<>>

\* https?:// in a pattern compiled without flags.
SchemePrefix(url) == url.scheme \in {"http", "https"}

\* re.match anchors at the start only.  [^/]+ is the host; (?:.+?/)* is
\* greedy, so of several places where /-/merge_requests/<digit> follows a
\* part the last one is taken; the part before it is group 1 and is never
\* the host.  The value is None or the pair of groups.
GITLAB_MR_PATTERN(url) ==
    LET segs == url.segs
        ks == {k \in 2..(Len(segs) - 3) :
                  /\ segs[k + 1] = "-"
                  /\ segs[k + 2] = "merge_requests"
                  /\ LeadingDigits(segs[k + 3]) # ""}
    IN  IF SchemePrefix(url) /\ ks # {}
        THEN LET k == CHOOSE i \in ks : \A j \in ks : j <= i
             IN  Some(<<segs[k], LeadingDigits(segs[k + 3])>>)
        ELSE None

GITHUB_PR_PATTERN_any_host(url) ==
    LET segs == url.segs
    IN  IF /\ SchemePrefix(url)
           /\ Len(segs) >= 5
           /\ segs[4] = "pull"
           /\ LeadingDigits(segs[5]) # ""
        THEN Some(<<segs[3], LeadingDigits(segs[5])>>)
        ELSE None

GITHUB_PR_PATTERN(url) ==
    LET segs == url.segs
    IN  IF /\ SchemePrefix(url)
           /\ Len(segs) >= 5
           /\ segs[1] = "github.com"
           /\ segs[4] = "pull"
           /\ LeadingDigits(segs[5]) # ""
        THEN Some(<<segs[3], LeadingDigits(segs[5])>>)
        ELSE None

\* The patterns' first group put on the part after the host (the group or
\* owner) in place of the part before /-/ or /pull/.
extract_task_id_of_group(url) ==
    LET gitlab_match == GITLAB_MR_PATTERN(url)
        github_match == GITHUB_PR_PATTERN(url)
    IN  IF gitlab_match # None
        THEN Some(<<url.segs[2], "merge_requests", gitlab_match[1][2]>>)
        ELSE IF github_match # None
        THEN Some(<<url.segs[2], "pull", github_match[1][2]>>)
        ELSE None

\* The identifier "<repo>/merge_requests/<n>" or "<repo>/pull/<n>" is
\* written as the tuple of its three "/"-separated parts.
extract_task_id(url) ==
    LET gitlab_match == GITLAB_MR_PATTERN(url)
        github_match == GITHUB_PR_PATTERN(url)
    IN  IF gitlab_match # None
        THEN Some(<<gitlab_match[1][1], "merge_requests", gitlab_match[1][2]>>)
        ELSE IF github_match # None
        THEN Some(<<github_match[1][1], "pull", github_match[1][2]>>)
        ELSE None

\* The messages the !wadd handler is given: (\w+) after "@" or no user.
Users == {None, Some("bob")}
BotUrls ==
    { [scheme |-> "http",
       segs |-> <<"gitlab.example.com", "group", "repo", "-", "merge_requests", "45">>],
      [scheme |-> "https", segs |-> <<"github.com", "group", "repo", "pull", "45">>],
      [scheme |-> "HTTP", segs |-> <<"github.com", "group", "repo", "pull", "45">>] }

\* f"@{assigned_to}" for the users above.
At(assigned_to) == IF assigned_to = "bob" THEN "@bob" ELSE "@"

\* What indexing and iterating a Python str yield: its characters, each a
\* str of length one.
Chars(str) ==
    IF str = "@bob" THEN <<"@", "b", "o", "b">>
    ELSE IF str = "unassigned"
    THEN <<"u", "n", "a", "s", "s", "i", "g", "n", "e", "d">>
    ELSE <<>>

\* !wadd.  add_task is handed the str assigned_to_formatted where it takes
\* a list of handles, so it reads the str's characters.  The value is the
\* store after the handler and the reply it sent.
handle_wadd(db, chat_id, url, assigned_to, created_by) ==
    LET task_id == extract_task_id(url)
        assigned_to_formatted ==
            IF assigned_to # None THEN At(assigned_to[1]) ELSE "unassigned"
        r == add_task(db, chat_id, task_id[1], url,
                      Chars(assigned_to_formatted), created_by)
    IN  IF task_id = None
        THEN [db |-> db, ret |-> [reply |-> "Invalid URL", seq_num |-> 0]]
        ELSE IF r.ret = None
        THEN [db |-> r.db, ret |-> [reply |-> "already exists", seq_num |-> 0]]
        ELSE [db |-> r.db, ret |-> [reply |-> "added", seq_num |-> r.ret[1]]]

\* The references of !wdone: the text after the command, stripped, as the
\* number of leading "#" and the "/"-separated parts of the rest.
DigitTexts == <<"1", "2", "3", "4">>
TooLarge == "9223372036854775808"
Refs ==
    {[hashes |-> h, parts |-> p] :
        h \in {0, 1},
        p \in {<<DigitTexts[i]>> : i \in DOMAIN DigitTexts}
               \cup {<<TooLarge>>, <<"repo", "merge_requests", "45">>,
                     <<"repo", "pull", "45">>, <<"group", "pull", "45">>}}

\* str.isdigit() and int() on the texts above.
isdigit(parts) ==
    Len(parts) = 1 /\ parts[1] \in {DigitTexts[i] : i \in DOMAIN DigitTexts} \cup {TooLarge}

int(text) == CHOOSE i \in DOMAIN DigitTexts : DigitTexts[i] = text

\* sqlite3 binds a Python int as a 64-bit INTEGER and raises OverflowError
\* for one that does not fit.
OverflowError(text) == text = TooLarge

\* task_ref as handed to remove_task_by_id: with its "#", which no task_id
\* of the extractor starts with.
Raw(task_ref) ==
    IF task_ref.hashes = 0 THEN task_ref.parts ELSE <<"#", task_ref.parts>>

\* !wdone.  The value is the store after the handler and its reply; the
\* reply is None when the handler raised before replying.
handle_wdone(db, chat_id, task_ref) ==
    LET task_ref_clean == task_ref.parts
        r == IF isdigit(task_ref_clean)
             THEN remove_task_by_seq(db, chat_id, int(task_ref_clean[1]))
             ELSE remove_task_by_id(db, chat_id, Raw(task_ref))
    IN  IF isdigit(task_ref_clean) /\ OverflowError(task_ref_clean[1])
        THEN [db |-> db, ret |-> None]
        ELSE IF r.ret = None
        THEN [db |-> r.db, ret |-> Some([reply |-> "not found", seq_num |-> 0])]
        ELSE [db |-> r.db,
              ret |-> Some([reply |-> "Removed", seq_num |-> r.ret[1].seq_num])]

\* !w.  The value is the reply: the text of the empty-queue answer or the
\* lines of the list; None when the handler raised before replying
\* (Task has no attribute assigned_to).
handle_w(db, chat_id) ==
    LET ts == get_tasks(db, chat_id)
    IN  IF ts = <<>>
        THEN Some([text |-> "No tasks in the queue.", lines |-> <<>>])
        ELSE IF \E i \in DOMAIN ts : ~HasAttr(ts[i], "assigned_to")
        THEN None
        ELSE Some([text |-> "",
                   lines |-> [i \in DOMAIN ts |->
                                [seq_num |-> ts[i].seq_num, url |-> ts[i].url,
                                 task_id |-> ts[i].task_id,
                                 assigned_to |-> ts[i].assigned_to,
                                 created_by |-> ts[i].created_by]]])

(***************************************************************************)
(* Actions: one call of a Database method, one command handler or one      *)
(* firing of a job each.                                                   *)
(***************************************************************************)
Commit(db) ==
    /\ tasks' = db.tasks
    /\ task_assignees' = db.task_assignees
    /\ seq_counters' = db.seq_counters
    /\ sqlite_sequence' = db.sqlite_sequence

\* seq_num is 0 and task_id is "" in a call that takes none; pre is the
\* assignee list the targeted task had before an update, the chat's
\* reminder before a reminder command, the user of !wadd, <<>> otherwise.
Call(op, chat_id, seq_num, task_id, pre, ret) ==
    [op |-> op, chat_id |-> chat_id, seq_num |-> seq_num, task_id |-> task_id,
     pre |-> pre, ret |-> ret]

AssigneesOf(rows) ==
    IF rows = {} THEN <<>> ELSE _get_task_assignees(DB, (CHOOSE t \in rows : TRUE).id)

AddTaskFrom(CS, LS) ==
    \E chat_id \in CS, assignees \in LS : \E s \in SubmissionsIn(chat_id) :
        LET r == add_task(DB, chat_id, s.task_id, s.url, assignees, s.created_by)
        IN  /\ r.ret # None => sqlite_sequence < MaxTasks
            /\ Commit(r.db)
            /\ issued' = IF r.ret = None THEN issued
                         ELSE [issued EXCEPT ![chat_id] =
                                  Append(@, [seq_num |-> r.ret[1],
                                             task_id |-> s.task_id])]
            /\ last' = Call("add_task", chat_id, 0, s.task_id, <<>>, r.ret)
            /\ UNCHANGED <<reminders, jobs, input>>

AddTask == AddTaskFrom(Chats, AssigneeLists)

GetTasks ==
    \E chat_id \in Chats :
        /\ last' = Call("get_tasks", chat_id, 0, "", <<>>, get_tasks(DB, chat_id))
        /\ UNCHANGED <<store, reminders, jobs, issued, input>>

RemoveTaskById ==
    \E chat_id \in Chats, task_id \in TaskIds :
        LET r == remove_task_by_id(DB, chat_id, task_id)
        IN  /\ Commit(r.db)
            /\ last' = Call("remove_task_by_id", chat_id, 0, task_id, <<>>, r.ret)
            /\ UNCHANGED <<reminders, jobs, issued, input>>

RemoveTaskBySeq ==
    \E chat_id \in Chats, seq_num \in SeqNums :
        LET r == remove_task_by_seq(DB, chat_id, seq_num)
        IN  /\ Commit(r.db)
            /\ last' = Call("remove_task_by_seq", chat_id, seq_num, "", <<>>, r.ret)
            /\ UNCHANGED <<reminders, jobs, issued, input>>

UpdateTaskAssigneesBySeq ==
    \E chat_id \in Chats, seq_num \in SeqNums, assignees \in AssigneeLists :
        LET r == update_task_assignees_by_seq(DB, chat_id, seq_num, assignees)
            pre == AssigneesOf({t \in tasks : t.chat_id = chat_id /\ t.seq_num = seq_num})
        IN  /\ Commit(r.db)
            /\ last' = Call("update_task_assignees_by_seq", chat_id, seq_num, "",
                            pre, r.ret)
            /\ UNCHANGED <<reminders, jobs, issued, input>>

UpdateTaskAssigneesById ==
    \E chat_id \in Chats, task_id \in TaskIds, assignees \in AssigneeLists :
        LET r == update_task_assignees_by_id(DB, chat_id, task_id, assignees)
            pre == AssigneesOf({t \in tasks : t.chat_id = chat_id /\ t.task_id = task_id})
        IN  /\ Commit(r.db)
            /\ last' = Call("update_task_assignees_by_id", chat_id, 0, task_id,
                            pre, r.ret)
            /\ UNCHANGED <<reminders, jobs, issued, input>>

\* !wreminder-set without the two validations: the upsert and the job
\* come first, and the exception of add_reminder_job is the only check.
handle_wreminder_set_unvalidated ==
    \E chat_id \in Chats, cron_expression \in CronExpressions :
        LET j == add_reminder_job(jobs, chat_id, cron_expression)
        IN  /\ reminders' = set_reminder(reminders, chat_id, cron_expression, TRUE)
            /\ jobs' = j.jobs
            /\ last' = Call("handle_wreminder_set", chat_id, 0, "",
                            get_reminder(reminders, chat_id),
                            IF ~j.raised THEN Some(cron_expression) ELSE None)
            /\ UNCHANGED <<store, issued, input>>

\* !wreminder-set: two validations that reply and return, then the upsert,
\* then the job; an exception of add_reminder_job is caught and answered.
handle_wreminder_set ==
    \E chat_id \in Chats, cron_expression \in CronExpressions :
        LET valid == Len(cron_expression) = 5 /\ ~CronTriggerRaises(cron_expression)
            j == add_reminder_job(jobs, chat_id, cron_expression)
        IN  /\ reminders' = IF valid
                            THEN set_reminder(reminders, chat_id, cron_expression, TRUE)
                            ELSE reminders
            /\ jobs' = IF valid THEN j.jobs ELSE jobs
            /\ last' = Call("handle_wreminder_set", chat_id, 0, "",
                            get_reminder(reminders, chat_id),
                            IF valid /\ ~j.raised THEN Some(cron_expression) ELSE None)
            /\ UNCHANGED <<store, issued, input>>

handle_wreminder_off ==
    \E chat_id \in Chats :
        LET r == disable_reminder(reminders, chat_id)
        IN  /\ reminders' = r.rows
            /\ jobs' = IF r.ret THEN remove_reminder_job(jobs, chat_id) ELSE jobs
            /\ last' = Call("handle_wreminder_off", chat_id, 0, "",
                            get_reminder(reminders, chat_id), Some(r.ret))
            /\ UNCHANGED <<store, issued, input>>

handle_wreminder_remove ==
    \E chat_id \in Chats :
        LET r == delete_reminder(reminders, chat_id)
        IN  /\ reminders' = r.rows
            /\ jobs' = IF r.ret THEN remove_reminder_job(jobs, chat_id) ELSE jobs
            /\ last' = Call("handle_wreminder_remove", chat_id, 0, "",
                            get_reminder(reminders, chat_id), Some(r.ret))
            /\ UNCHANGED <<store, issued, input>>

\* The scheduler runs the callback of an armed job.
Fire ==
    \E j \in jobs :
        /\ last' = Call("send_reminder", j.chat_id, 0, "", <<>>,
                        send_reminder(DB, j.chat_id))
        /\ UNCHANGED <<store, reminders, jobs, issued, input>>

\* A !wadd message that one of the two command patterns matched.
HandleWadd ==
    \E chat_id \in Chats, url \in BotUrls, assigned_to \in Users :
        LET r == handle_wadd(DB, chat_id, url, assigned_to, "@alice")
        IN  /\ WADD_PATTERN(url)
            /\ r.ret.reply = "added" => sqlite_sequence < MaxTasks
            /\ Commit(r.db)
            /\ issued' = IF r.ret.reply # "added" THEN issued
                         ELSE [issued EXCEPT ![chat_id] =
                                  Append(@, [seq_num |-> r.ret.seq_num,
                                             task_id |-> extract_task_id(url)[1]])]
            /\ last' = Call("handle_wadd", chat_id, 0, "", assigned_to, Some(r.ret))
            /\ UNCHANGED <<reminders, jobs, input>>

\* A !wdone message with a reference.
HandleWdone ==
    \E chat_id \in Chats, task_ref \in Refs :
        LET r == handle_wdone(DB, chat_id, task_ref)
        IN  /\ Commit(r.db)
            /\ last' = Call("handle_wdone", chat_id, 0, "", Some(task_ref), r.ret)
            /\ UNCHANGED <<reminders, jobs, issued, input>>

HandleW ==
    \E chat_id \in Chats :
        /\ last' = Call("handle_w", chat_id, 0, "", <<>>, handle_w(DB, chat_id))
        /\ UNCHANGED <<store, reminders, jobs, issued, input>>

ExtractTaskId ==
    /\ last' = Call("extract_task_id", 0, 0, "", <<>>, extract_task_id(input))
    /\ UNCHANGED <<store, reminders, jobs, issued, input>>

\* The process starts (again): the module builds Database, which runs
\* _init_db on the file, and main sets the scheduler up.  ret is the number
\* of rows the migration wrote.
main ==
    LET db == _migrate_assignees(DB)
    IN  /\ Commit(db)
        /\ jobs' = setup_scheduler(reminders)
        /\ last' = Call("main", 0, 0, "", <<>>,
                        Some(Cardinality(db.task_assignees \ task_assignees)))
        /\ UNCHANGED <<reminders, issued, input>>

Init ==
    /\ tasks = _init_db.tasks
    /\ task_assignees = _init_db.task_assignees
    /\ seq_counters = _init_db.seq_counters
    /\ sqlite_sequence = _init_db.sqlite_sequence
    /\ reminders = {}
    /\ jobs = {}
    /\ input = NoUrl
    /\ awaiting = {}
    /\ issued = [c \in Chats |-> <<>>]
    /\ last = Call("__init__", 0, 0, "", <<>>, None)

\* The registry, called through the Database methods.
Next ==
    \/ (AddTask /\ UNCHANGED awaiting)
    \/ (GetTasks /\ UNCHANGED awaiting)
    \/ (RemoveTaskById /\ UNCHANGED awaiting)
    \/ (RemoveTaskBySeq /\ UNCHANGED awaiting)
    \/ (UpdateTaskAssigneesBySeq /\ UNCHANGED awaiting)
    \/ (UpdateTaskAssigneesById /\ UNCHANGED awaiting)

Spec == Init /\ [][Next]_vars

\* The reminder commands and the firing of jobs over a registry that is
\* filled and emptied.
NextReminder ==
    \/ (AddTaskFrom(Chats, {<<"@c">>}) /\ UNCHANGED awaiting)
    \/ (RemoveTaskById /\ UNCHANGED awaiting)
    \/ (handle_wreminder_set /\ UNCHANGED awaiting)
    \/ (handle_wreminder_off /\ UNCHANGED awaiting)
    \/ (handle_wreminder_remove /\ UNCHANGED awaiting)
    \/ (Fire /\ UNCHANGED awaiting)

SpecReminder == Init /\ [][NextReminder]_vars

\* The registry over process restarts.
NextRestart ==
    \/ (AddTask /\ UNCHANGED awaiting)
    \/ (GetTasks /\ UNCHANGED awaiting)
    \/ (RemoveTaskById /\ UNCHANGED awaiting)
    \/ (RemoveTaskBySeq /\ UNCHANGED awaiting)
    \/ (UpdateTaskAssigneesBySeq /\ UNCHANGED awaiting)
    \/ (UpdateTaskAssigneesById /\ UNCHANGED awaiting)
    \/ (main /\ UNCHANGED awaiting)

SpecRestart == Init /\ [][NextRestart]_vars

\* The reminder commands alone, with process restarts.
NextDirectory ==
    \/ (handle_wreminder_set /\ UNCHANGED awaiting)
    \/ (handle_wreminder_off /\ UNCHANGED awaiting)
    \/ (handle_wreminder_remove /\ UNCHANGED awaiting)
    \/ (main /\ UNCHANGED awaiting)

SpecDirectory == Init /\ [][NextDirectory]_vars

\* The !wadd, !w and !wdone commands.
NextBot ==
    \/ (HandleWadd /\ UNCHANGED awaiting)
    \/ (HandleW /\ UNCHANGED awaiting)
    \/ (HandleWdone /\ UNCHANGED awaiting)

SpecBot == Init /\ [][NextBot]_vars

\* The extractor applied to each URL of a scheme, a host and at most
\* MaxPath path parts.
InitExtract ==
    /\ tasks = _init_db.tasks
    /\ task_assignees = _init_db.task_assignees
    /\ seq_counters = _init_db.seq_counters
    /\ sqlite_sequence = _init_db.sqlite_sequence
    /\ reminders = {}
    /\ jobs = {}
    /\ \E sc \in Schemes, h \in Hosts, k \in 0..MaxPath : \E p \in Paths(k) :
           input = [scheme |-> sc, segs |-> <<h>> \o p]
    /\ awaiting = {}
    /\ issued = [c \in Chats |-> <<>>]
    /\ last = Call("__init__", 0, 0, "", <<>>, None)

SpecExtract == InitExtract /\ [][ExtractTaskId /\ UNCHANGED awaiting]_vars

\* A store written before the relation task_assignees existed: tasks rows
\* whose column assigned_to holds a handle, 'unassigned' or '', and no
\* task_assignees row.
LegacyAssignedTo == {"unassigned", "", "@a", "@b"}

LegacyTasks ==
    { [id |-> 1, chat_id |-> 7, seq_num |-> 1, task_id |-> "repo/merge_requests/123",
       url |-> "http://gitlab.example.com/group/repo/-/merge_requests/123",
       created_by |-> "@alice"],
      [id |-> 2, chat_id |-> 7, seq_num |-> 2, task_id |-> "repo/pull/45",
       url |-> "https://github.com/owner/repo/pull/45", created_by |-> "@alice"],
      [id |-> 3, chat_id |-> 8, seq_num |-> 1, task_id |-> "repo/merge_requests/123",
       url |-> "https://gitlab.example.org/team/repo/-/merge_requests/123",
       created_by |-> "Bob"] }

LegacyStores ==
    UNION {{ {[id |-> t.id, chat_id |-> t.chat_id, seq_num |-> t.seq_num,
               task_id |-> t.task_id, url |-> t.url, assigned_to |-> f[t],
               created_by |-> t.created_by] : t \in S} :
             f \in [S -> LegacyAssignedTo]} : S \in SUBSET LegacyTasks}

InitLegacy ==
    /\ tasks \in LegacyStores
    /\ task_assignees = {}
    /\ seq_counters = {[chat_id |-> 7, next_num |-> 3], [chat_id |-> 8, next_num |-> 2]}
    /\ sqlite_sequence = 3
    /\ reminders = {}
    /\ jobs = {}
    /\ input = NoUrl
    /\ awaiting = {}
    /\ issued = [c \in Chats |-> <<>>]
    /\ last = Call("legacy file", 0, 0, "", <<>>, None)

\* The process is started, and started again, on a legacy store; once it
\* runs, the tasks are listed.
NextLegacy ==
    \/ (main /\ UNCHANGED awaiting)
    \/ (last.op # "legacy file" /\ GetTasks /\ UNCHANGED awaiting)

SpecLegacy == InitLegacy /\ [][NextLegacy]_vars

(***************************************************************************)
(* Properties of the registry.  A property of one call is stated for every *)
(* argument at every reachable store: the actions above apply exactly      *)
(* these operators to the store.                                           *)
(***************************************************************************)
Live(chat_id) == {t \in tasks : t.chat_id = chat_id}

IsLive(db, chat_id, task_id) ==
    \E t \in db.tasks : t.chat_id = chat_id /\ t.task_id = task_id

\* seq lists the members of S, each once, in ascending collation order.
SortedHandles(seq, S) ==
    /\ \A i \in DOMAIN seq : seq[i] \in S
    /\ \A h \in S : \E i \in DOMAIN seq : seq[i] = h
    /\ \A i, j \in DOMAIN seq : i < j => Rank(seq[i]) < Rank(seq[j])

AssigneeRows(db, id) == {r \in db.task_assignees : r.task_id = id}

\* rec is row t of db as a Task: the row's columns and its assignee rows.
StoredAs(rec, t, db) ==
    /\ rec.id = t.id /\ rec.chat_id = t.chat_id /\ rec.seq_num = t.seq_num
    /\ rec.task_id = t.task_id /\ rec.url = t.url /\ rec.created_by = t.created_by
    /\ SortedHandles(rec.assignees, {r.assignee : r \in AssigneeRows(db, t.id)})

\* C1: in every chat the seq_num values returned by successful adds are
\* strictly increasing in order of issue, so none is issued twice, whatever
\* removals and updates come between them.
C1_SeqNumStrictlyIncreasing ==
    \A c \in Chats : \A i, j \in DOMAIN issued[c] :
        i < j => issued[c][i].seq_num < issued[c][j].seq_num

\* C1 witness: a task_id added, removed and added again got a new number.
C1_Witness ==
    \E c \in Chats :
        /\ Len(issued[c]) = 2
        /\ issued[c][1].task_id = issued[c][2].task_id
        /\ \E t \in Live(c) : t.seq_num = issued[c][2].seq_num
        /\ last.op = "add_task" /\ last.ret # None

\* C2: within one chat no two live tasks share a task_id and no two share
\* a seq_num.
C2_UniquePerChat ==
    \A t1, t2 \in tasks :
        (t1.chat_id = t2.chat_id /\ (t1.task_id = t2.task_id \/ t1.seq_num = t2.seq_num))
            => t1 = t2

\* C2 witness: a chat holds two live tasks and an add of a task_id it
\* already holds has just been refused.
C2_Witness ==
    /\ last.op = "add_task" /\ last.ret = None
    /\ Cardinality(Live(last.chat_id)) = 2

\* C3: an add whose task_id is live in the chat returns None and changes no
\* row of tasks or task_assignees, so every chat lists what it listed before.
C3_DuplicateAddRejected ==
    \A c \in Chats, s \in Submissions, a \in AssigneeLists :
        IsLive(DB, c, s.task_id) =>
            LET r == add_task(DB, c, s.task_id, s.url, a, s.created_by)
            IN  /\ r.ret = None
                /\ r.db.tasks = tasks
                /\ r.db.task_assignees = task_assignees
                /\ \A c2 \in Chats : get_tasks(r.db, c2) = get_tasks(DB, c2)

\* C3 witness: a refused add of a task_id that is live in the chat.
C3_Witness ==
    /\ last.op = "add_task" /\ last.ret = None
    /\ \E t \in Live(last.chat_id) :
           t.task_id = last.task_id /\ AssigneeRows(DB, t.id) # {}

\* C4: a refused add leaves seq_counters as it was, and the k-th successful
\* add of a chat returned k.
C4_RejectedAddKeepsCounter ==
    /\ \A c \in Chats, s \in Submissions, a \in AssigneeLists :
           IsLive(DB, c, s.task_id) =>
               add_task(DB, c, s.task_id, s.url, a, s.created_by).db.seq_counters
                   = seq_counters
    /\ \A c \in Chats : \A k \in DOMAIN issued[c] : issued[c][k].seq_num = k

\* C4 witness: after one successful add and a refused one the chat's counter
\* still holds 2.
C4_Witness ==
    /\ last.op = "add_task" /\ last.ret = None
    /\ Len(issued[last.chat_id]) = 1
    /\ [chat_id |-> last.chat_id, next_num |-> 2] \in seq_counters

\* What a chat owns: its rows of tasks, their assignee rows, its counter row.
ChatView(db, chat_id) ==
    LET mine == {t \in db.tasks : t.chat_id = chat_id}
    IN  [tasks |-> mine,
         assignees |-> {r \in db.task_assignees : r.task_id \in {t.id : t \in mine}},
         counter |-> {r \in db.seq_counters : r.chat_id = chat_id}]

\* r is the outcome of removing live row t from DB: the row as it was stored
\* is returned, it is gone from its chat's list, every other row of tasks and
\* every other task's assignee rows are as before, and so are the counters.
RemovedExactly(r, t) ==
    LET before == get_tasks(DB, t.chat_id)
        after == get_tasks(r.db, t.chat_id)
    IN  /\ r.ret # None
        /\ StoredAs(r.ret[1], t, DB)
        /\ \A i \in DOMAIN after : after[i].id # t.id
        /\ r.db.tasks = tasks \ {t}
        /\ \A u \in tasks \ {t} : AssigneeRows(r.db, u.id) = AssigneeRows(DB, u.id)
        /\ \A c \in Chats \ {t.chat_id} : get_tasks(r.db, c) = get_tasks(DB, c)
        /\ Len(after) = Len(before) - 1
        /\ \A i \in DOMAIN after : \E j \in DOMAIN before : after[i] = before[j]
        /\ r.db.seq_counters = seq_counters

\* C5: removing a live task by seq_num or by task_id returns it as stored,
\* takes it out of the list and leaves every other task and the counters alone.
C5_RemoveReturnsStoredTask ==
    \A t \in tasks :
        /\ RemovedExactly(remove_task_by_seq(DB, t.chat_id, t.seq_num), t)
        /\ RemovedExactly(remove_task_by_id(DB, t.chat_id, t.task_id), t)

\* C5 witness: a task with assignees was removed, another chat holds a task
\* with the same seq_num and task_id, and it is still there.
C5_Witness ==
    /\ last.op \in {"remove_task_by_seq", "remove_task_by_id"}
    /\ last.ret # None
    /\ last.ret[1].assignees # <<>>
    /\ \E t \in tasks : /\ t.chat_id # last.chat_id
                        /\ t.seq_num = last.ret[1].seq_num
                        /\ t.task_id = last.ret[1].task_id

\* C6: get_tasks returns the chat's live tasks, each once and as stored, in
\* ascending seq_num order, which is the order the adds were issued in; it is
\* empty when the chat has none.
C6_ListIsLiveTasksBySeqNum ==
    \A c \in Chats :
        LET l == get_tasks(DB, c)
        IN  /\ Len(l) = Cardinality(Live(c))
            /\ \A t \in Live(c) : \E i \in DOMAIN l : StoredAs(l[i], t, DB)
            /\ \A i, j \in DOMAIN l : i < j => l[i].seq_num < l[j].seq_num
            /\ \A i \in DOMAIN l : \E k \in DOMAIN issued[c] :
                   issued[c][k] = [seq_num |-> l[i].seq_num, task_id |-> l[i].task_id]
            /\ \A i, j \in DOMAIN l : \A k, m \in DOMAIN issued[c] :
                   (/\ i < j
                    /\ issued[c][k].seq_num = l[i].seq_num
                    /\ issued[c][m].seq_num = l[j].seq_num) => k < m

\* C6 witness: a list of two tasks has been returned.
C6_Witness ==
    /\ last.op = "get_tasks"
    /\ Len(last.ret) = 2
    /\ last.ret[1].assignees # last.ret[2].assignees

\* The distinct non-empty elements of an assignees argument.
HandlesOf(assignees) == {assignees[i] : i \in DOMAIN assignees} \ {""}

\* r is the outcome of setting live row t's assignees to b: the rows of the
\* task are b's handles and nothing else, the record returned is the task
\* with them in sorted order, and the same update again changes nothing.
ReplacedBy(r, again, t, b) ==
    /\ r.ret # None
    /\ {x.assignee : x \in AssigneeRows(r.db, t.id)} = HandlesOf(b)
    /\ SortedHandles(r.ret[1].assignees, HandlesOf(b))
    /\ b = <<>> => r.ret[1].assignees = <<>>
    /\ r.ret[1].id = t.id
    /\ again = r

\* C7: update_task_assignees_by_seq / _by_id replace the assignee set by the
\* distinct handles of the argument, sorted, whatever the task held before;
\* [] leaves none; repeating the update changes nothing; the returned record
\* shows the new set.
C7_UpdateReplacesAssignees ==
    \A t \in tasks, b \in AssigneeLists :
        /\ LET r == update_task_assignees_by_seq(DB, t.chat_id, t.seq_num, b)
           IN  ReplacedBy(r, update_task_assignees_by_seq(r.db, t.chat_id, t.seq_num, b),
                          t, b)
        /\ LET r == update_task_assignees_by_id(DB, t.chat_id, t.task_id, b)
           IN  ReplacedBy(r, update_task_assignees_by_id(r.db, t.chat_id, t.task_id, b),
                          t, b)

\* C7 witness: a task that held @a and @b was updated and now holds only @c.
C7_Witness ==
    /\ last.op \in {"update_task_assignees_by_seq", "update_task_assignees_by_id"}
    /\ last.pre = <<"@a", "@b">>
    /\ last.ret # None
    /\ last.ret[1].assignees = <<"@c">>

CallsOn(c) ==
    {add_task(DB, c, s.task_id, s.url, a, s.created_by) :
        s \in Submissions, a \in AssigneeLists}
    \cup {remove_task_by_seq(DB, c, n) : n \in SeqNums}
    \cup {remove_task_by_id(DB, c, id) : id \in TaskIds}
    \cup {update_task_assignees_by_seq(DB, c, n, b) : n \in SeqNums, b \in AssigneeLists}
    \cup {update_task_assignees_by_id(DB, c, id, b) : id \in TaskIds, b \in AssigneeLists}

\* C9: a call on one chat changes no task, assignee row or counter of
\* another chat; a task_id live in another chat does not make an add fail;
\* the first successful add of every chat returned 1.
C9_ChatsAreIndependent ==
    /\ \A c \in Chats : \A r \in CallsOn(c) : \A c2 \in Chats \ {c} :
           ChatView(r.db, c2) = ChatView(DB, c2)
    /\ \A c \in Chats, s \in Submissions, a \in AssigneeLists :
           ~IsLive(DB, c, s.task_id) =>
               add_task(DB, c, s.task_id, s.url, a, s.created_by).ret # None
    /\ \A c \in Chats : issued[c] # <<>> => issued[c][1].seq_num = 1

\* C9 witness: the two chats each hold a live task with the same task_id and
\* with seq_num 1.
C9_Witness ==
    /\ last.op = "add_task" /\ last.ret = Some(1)
    /\ \E t1, t2 \in tasks : /\ t1.chat_id # t2.chat_id
                             /\ t1.task_id = t2.task_id
                             /\ t1.seq_num = 1 /\ t2.seq_num = 1

(***************************************************************************)
(* Properties of the reminder callback.                                    *)
(***************************************************************************)
\* C10: when a chat's job fires while the chat has a live task, one message
\* is sent to that chat and it names every live task.
C10_ReminderSentWhenTasksPending ==
    (last.op = "send_reminder" /\ Live(last.chat_id) # {}) =>
        /\ last.ret # None
        /\ last.ret[1].chat_id = last.chat_id
        /\ \A t \in Live(last.chat_id) :
               \E i \in DOMAIN last.ret[1].text :
                   last.ret[1].text[i].seq_num = t.seq_num

(***************************************************************************)
(* Properties of the bot's commands.                                       *)
(***************************************************************************)
\* C11: a !w in a chat with a live task is answered by a reply that lists
\* every live task of the chat in ascending seq_num order; with no live task
\* the reply says that the queue is empty.
C11_ListReplyShowsLiveTasks ==
    last.op = "handle_w" =>
        IF Live(last.chat_id) = {}
        THEN last.ret = Some([text |-> "No tasks in the queue.", lines |-> <<>>])
        ELSE /\ last.ret # None
             /\ LET lines == last.ret[1].lines
                IN  /\ Len(lines) = Cardinality(Live(last.chat_id))
                    /\ \A t \in Live(last.chat_id) :
                           \E i \in DOMAIN lines : lines[i].seq_num = t.seq_num
                    /\ \A i, j \in DOMAIN lines :
                           i < j => lines[i].seq_num < lines[j].seq_num

(***************************************************************************)
(* Properties of the reminder directory and the scheduler.                 *)
(***************************************************************************)
Config(chat_id) == get_reminder(reminders, chat_id)

JobsOf(chat_id) == {j \in jobs : j.chat_id = chat_id}

\* C12: once the process has started and after every reminder command, also
\* across restarts, a chat has an armed job if and only if its stored
\* reminder exists and is enabled; a chat has at most one job, and the job's
\* schedule is the stored one.
C12_JobArmedIffReminderEnabled ==
    \A c \in Chats :
        /\ JobsOf(c) # {} <=> (Config(c) # None /\ Config(c)[1].enabled)
        /\ Cardinality(JobsOf(c)) <= 1
        /\ \A j \in JobsOf(c) : j.cron_expression = Config(c)[1].cron_expression

\* C12 witness: a restart rebuilt the job of a chat from its stored reminder
\* while the other chat's reminder is stored but disabled.
C12_Witness ==
    /\ last.op = "main"
    /\ \E c \in Chats :
           /\ JobsOf(c) = {[chat_id |-> c,
                            cron_expression |-> <<"0", "9,17", "*", "*", "1-5">>]}
           /\ \E d \in Chats \ {c} : Config(d) # None /\ ~Config(d)[1].enabled

\* C13: set is an upsert that leaves the chat's reminder enabled: whatever
\* was stored for the chat before (nothing, an enabled or a disabled
\* reminder), get then returns the one reminder of the chat, with exactly
\* the schedule given and enabled; and that is what a handled !wreminder-set
\* leaves.
C13_SetUpsertsEnabled ==
    /\ \A c \in Chats, e \in CronExpressions :
           LET rows == set_reminder(reminders, c, e, TRUE)
           IN  /\ get_reminder(rows, c) =
                      Some([chat_id |-> c, cron_expression |-> e, enabled |-> TRUE])
               /\ Cardinality({r \in rows : r.chat_id = c}) = 1
    /\ (last.op = "handle_wreminder_set" /\ last.ret # None) =>
           Config(last.chat_id) =
               Some([chat_id |-> last.chat_id, cron_expression |-> last.ret[1],
                     enabled |-> TRUE])

\* C13 witness: a !wreminder-set on a chat whose reminder was disabled and
\* had another schedule.
C13_Witness ==
    /\ last.op = "handle_wreminder_set" /\ last.ret # None
    /\ last.pre # None
    /\ ~last.pre[1].enabled
    /\ last.pre[1].cron_expression # last.ret[1]
    /\ Config(last.chat_id)[1].enabled

\* C14: disable on a chat that has a reminder changes only enabled, to
\* false: the row is kept with the schedule it had, also when it was
\* disabled already; the reminders of the other chats are unchanged.
C14_DisableChangesOnlyEnabled ==
    /\ \A c \in Chats :
           LET r == disable_reminder(reminders, c)
           IN  /\ Config(c) # None =>
                      get_reminder(r.rows, c) =
                          Some([Config(c)[1] EXCEPT !.enabled = FALSE])
               /\ {x \in r.rows : x.chat_id # c} = {x \in reminders : x.chat_id # c}
               /\ Cardinality({x \in r.rows : x.chat_id = c}) =
                      Cardinality({x \in reminders : x.chat_id = c})
    /\ (last.op = "handle_wreminder_off" /\ last.pre # None) =>
           Config(last.chat_id) = Some([last.pre[1] EXCEPT !.enabled = FALSE])

\* C14 witness: a !wreminder-off disabled the enabled reminder of one chat
\* while the other chat's reminder is enabled.
C14_Witness ==
    /\ last.op = "handle_wreminder_off"
    /\ last.pre # None
    /\ last.pre[1].enabled
    /\ \E d \in Chats \ {last.chat_id} : Config(d) # None /\ Config(d)[1].enabled

Listed(rows) == {r.chat_id : r \in get_all_active_reminders(rows)}

\* C15: listActive returns exactly the enabled reminders, at most one per
\* chat.  A chat is listed if and only if its last set was not followed by a
\* disable or delete of that chat: nothing is listed at first, a set lists
\* the chat, a disable or delete unlists it, and none of the three changes
\* whether another chat is listed.
C15_ListActiveIsEnabledReminders ==
    /\ \A c \in Chats :
           c \in Listed(reminders) <=> (Config(c) # None /\ Config(c)[1].enabled)
    /\ \A r \in get_all_active_reminders(reminders) :
           Config(r.chat_id) = Some(r) /\ r.enabled
    /\ \A r1, r2 \in get_all_active_reminders(reminders) :
           r1.chat_id = r2.chat_id => r1 = r2
    /\ last.op = "__init__" => Listed(reminders) = {}
    /\ \A c \in Chats :
           LET after == {set_reminder(reminders, c, e, TRUE) : e \in CronExpressions}
               off == disable_reminder(reminders, c).rows
               gone == delete_reminder(reminders, c).rows
           IN  /\ \A rows \in after : c \in Listed(rows)
               /\ c \notin Listed(off)
               /\ c \notin Listed(gone)
               /\ \A rows \in after \cup {off, gone} :
                      Listed(rows) \ {c} = Listed(reminders) \ {c}
    /\ (last.op = "handle_wreminder_set" /\ last.ret # None) =>
           last.chat_id \in Listed(reminders)
    /\ last.op \in {"handle_wreminder_off", "handle_wreminder_remove"} =>
           last.chat_id \notin Listed(reminders)

\* C15 witness: both chats have a reminder, the one of the chat of the last
\* !wreminder-off was enabled before it, and listActive returns only the
\* other chat's.
C15_Witness ==
    /\ last.op = "handle_wreminder_off"
    /\ last.pre # None /\ last.pre[1].enabled
    /\ Cardinality(reminders) = 2
    /\ Listed(reminders) = Chats \ {last.chat_id}

\* C16: disable and delete return true if and only if the chat had a
\* reminder row when they were called (disable also when the row was
\* disabled already); when they return false the directory is unchanged;
\* after delete, get returns None for the chat, as it does for a chat that
\* never had a reminder.
C16_DisableDeleteReportExistence ==
    /\ \A c \in Chats :
           LET off == disable_reminder(reminders, c)
               gone == delete_reminder(reminders, c)
           IN  /\ off.ret <=> Config(c) # None
               /\ gone.ret <=> Config(c) # None
               /\ ~off.ret => off.rows = reminders
               /\ ~gone.ret => gone.rows = reminders
               /\ get_reminder(gone.rows, c) = get_reminder({}, c)
    /\ last.op \in {"handle_wreminder_off", "handle_wreminder_remove"} =>
           last.ret = Some(last.pre # None)
    /\ last.op = "handle_wreminder_remove" => Config(last.chat_id) = None

\* C16 witness: a !wreminder-remove deleted the reminder of one chat, which
\* get no longer returns, and the other chat's reminder is still stored.
C16_Witness ==
    /\ last.op = "handle_wreminder_remove"
    /\ last.pre # None
    /\ last.ret = Some(TRUE)
    /\ Config(last.chat_id) = None
    /\ reminders # {}

(***************************************************************************)
(* Properties of the migration of the legacy column.                       *)
(***************************************************************************)
RealHandle(assigned_to) == assigned_to \notin {"unassigned", ""}

\* C17: opening a store whose relation task_assignees is empty gives every
\* task whose legacy column holds a real handle exactly that handle as its
\* assignee set and gives the other tasks none; opening a store whose
\* relation is not empty changes nothing; migrating twice is migrating
\* once; and once the process has started on a legacy store, every task
\* lists exactly its legacy handle and a further start writes no row.
C17_MigrationBackfillsOnce ==
    LET m == _migrate_assignees(DB)
    IN  /\ task_assignees = {} =>
               /\ \A t \in tasks :
                      AssigneeRows(m, t.id) =
                          IF RealHandle(t.assigned_to)
                          THEN {[task_id |-> t.id, assignee |-> t.assigned_to]}
                          ELSE {}
               /\ \A r \in m.task_assignees : \E t \in tasks : t.id = r.task_id
        /\ task_assignees # {} => m = DB
        /\ [m EXCEPT !.task_assignees = task_assignees] = DB
        /\ _migrate_assignees(m) = m
        /\ last.op # "legacy file" =>
               /\ m = DB
               /\ \A t \in tasks :
                      _get_task_assignees(DB, t.id) =
                          IF RealHandle(t.assigned_to) THEN <<t.assigned_to>> ELSE <<>>

\* C17 witness: the process started again on a migrated store that holds a
\* task with a real legacy handle, one marked 'unassigned' and one with an
\* empty legacy column; the start wrote no row.
C17_Witness ==
    /\ last.op = "main"
    /\ last.ret = Some(0)
    /\ task_assignees # {}
    /\ \E t1, t2, t3 \in tasks :
           /\ RealHandle(t1.assigned_to)
           /\ AssigneeRows(DB, t1.id) = {[task_id |-> t1.id, assignee |-> t1.assigned_to]}
           /\ t2.assigned_to = "unassigned" /\ AssigneeRows(DB, t2.id) = {}
           /\ t3.assigned_to = "" /\ AssigneeRows(DB, t3.id) = {}

\* The Task that get_tasks lists under a seq_num.
Listed_task(chat_id, seq_num) ==
    LET ts == get_tasks(DB, chat_id)
    IN  ts[CHOOSE i \in DOMAIN ts : ts[i].seq_num = seq_num]

\* C18: a !wadd without @user creates a task that the list returns with an
\* empty assignee set; a !wadd with @user creates a task whose assignee set
\* is exactly {"@user"}.
C18_AddCommandSetsAssignees ==
    (last.op = "handle_wadd" /\ last.ret[1].reply = "added") =>
        Listed_task(last.chat_id, last.ret[1].seq_num).assignees =
            IF last.pre = None THEN <<>> ELSE <<At(last.pre[1])>>

(***************************************************************************)
(* Properties of the extractor.  The URLs are the ones the caller hands    *)
(* over: they start with http:// or https://, in some letter case.         *)
(***************************************************************************)
\* The path holds <repo>/-/merge_requests/<digits> with <repo> its k-th
\* part, a part after the host.
MergeRequestAt(url, k) ==
    /\ k \in 2..(Len(url.segs) - 3)
    /\ url.segs[k + 1] = "-"
    /\ url.segs[k + 2] = "merge_requests"
    /\ LeadingDigits(url.segs[k + 3]) # ""

\* The URL is github.com/<owner>/<repo>/pull/<digits>, possibly continued.
PullRequest(url) ==
    /\ Len(url.segs) >= 5
    /\ url.segs[1] = "github.com"
    /\ url.segs[4] = "pull"
    /\ LeadingDigits(url.segs[5]) # ""

C20_SchemeCaseIgnored ==
    (last.op = "extract_task_id" /\ WADD_PATTERN(input)) =>
        last.ret = extract_task_id([input EXCEPT !.scheme = Lower(input.scheme)])

(***************************************************************************)
(* Further properties of the registry, over process restarts.              *)
(***************************************************************************)
\* A row of tasks without its legacy copy of the first assignee.
Identity(t) ==
    [id |-> t.id, chat_id |-> t.chat_id, seq_num |-> t.seq_num,
     task_id |-> t.task_id, url |-> t.url, created_by |-> t.created_by]

\* r is the outcome of an update of live row t: the record returned and the
\* row kept have t's id, seq_num, task_id, url and created_by; every other
\* row of tasks and every other task's assignee rows are as before; every
\* chat lists the same tasks in the same order, all but t with the assignees
\* they had; the counters are as before.
UpdatedOnly(r, t) ==
    /\ r.ret # None
    /\ Identity(r.ret[1]) = Identity(t)
    /\ r.db.tasks \ {u \in r.db.tasks : u.id = t.id} = tasks \ {t}
    /\ {Identity(u) : u \in r.db.tasks} = {Identity(u) : u \in tasks}
    /\ Cardinality(r.db.tasks) = Cardinality(tasks)
    /\ \A u \in tasks \ {t} : AssigneeRows(r.db, u.id) = AssigneeRows(DB, u.id)
    /\ \A c \in Chats :
           LET before == get_tasks(DB, c)
               after == get_tasks(r.db, c)
           IN  /\ Len(after) = Len(before)
               /\ \A i \in DOMAIN before :
                      /\ Identity(after[i]) = Identity(before[i])
                      /\ before[i].id # t.id => after[i] = before[i]
    /\ r.db.seq_counters = seq_counters
    /\ r.db.sqlite_sequence = sqlite_sequence

\* C21: an update of a task's assignees, by seq_num or by task_id, changes
\* only that task's assignee set: its seq_num, task_id, url and created_by
\* stay, every other task is unchanged, the same tasks are live and the
\* counters are unchanged.
C21_UpdateChangesOnlyAssignees ==
    \A t \in tasks, b \in AssigneeLists :
        /\ UpdatedOnly(update_task_assignees_by_seq(DB, t.chat_id, t.seq_num, b), t)
        /\ UpdatedOnly(update_task_assignees_by_id(DB, t.chat_id, t.task_id, b), t)

\* C21 witness: one of two live tasks of a chat was given other assignees
\* while the other task of the chat holds assignees of its own.
C21_Witness ==
    /\ last.op \in {"update_task_assignees_by_seq", "update_task_assignees_by_id"}
    /\ last.ret # None
    /\ last.pre # <<>>
    /\ last.ret[1].assignees # last.pre
    /\ \E u \in Live(last.chat_id) :
           u.id # last.ret[1].id /\ AssigneeRows(DB, u.id) # {}

\* C22: seq_num and task_id name the same task.  For a live task with
\* seq_num n and task_id s, removal by n and removal by s return the same
\* record and leave the same store, and so do the two updates for every
\* assignees argument; after removal by one key, a remove or an update by
\* the other key finds nothing.
C22_BothKeysNameTheSameTask ==
    \A t \in tasks :
        LET c == t.chat_id
            n == t.seq_num
            s == t.task_id
            by_seq == remove_task_by_seq(DB, c, n)
            by_id == remove_task_by_id(DB, c, s)
        IN  /\ by_seq.ret # None
            /\ by_seq = by_id
            /\ \A b \in AssigneeLists :
                   /\ update_task_assignees_by_seq(DB, c, n, b).ret # None
                   /\ update_task_assignees_by_seq(DB, c, n, b)
                          = update_task_assignees_by_id(DB, c, s, b)
            /\ remove_task_by_id(by_seq.db, c, s).ret = None
            /\ remove_task_by_seq(by_id.db, c, n).ret = None
            /\ \A b \in AssigneeLists :
                   /\ update_task_assignees_by_id(by_seq.db, c, s, b).ret = None
                   /\ update_task_assignees_by_seq(by_id.db, c, n, b).ret = None

\* C22 witness: a remove by seq_num found nothing because the task that had
\* been issued that number is gone, and its task_id is not live either.
C22_Witness ==
    /\ last.op = "remove_task_by_seq"
    /\ last.ret = None
    /\ \E k \in DOMAIN issued[last.chat_id] :
           /\ issued[last.chat_id][k].seq_num = last.seq_num
           /\ ~IsLive(DB, last.chat_id, issued[last.chat_id][k].task_id)

\* The live tasks of a chat that a reference names: the one with seq_num N
\* when the reference is the number N, with or without "#", else the one
\* whose task_id is the reference.
Named(chat_id, task_ref) ==
    IF Len(task_ref.parts) = 1 /\ \E i \in DOMAIN DigitTexts : DigitTexts[i] = task_ref.parts[1]
    THEN {t \in Live(chat_id) : DigitTexts[t.seq_num] = task_ref.parts[1]}
    ELSE IF task_ref.hashes = 0
    THEN {t \in Live(chat_id) : t.task_id = task_ref.parts}
    ELSE {}

\* C23: a !wdone removes exactly the live task its reference names, by
\* seq_num for a number with or without a leading "#" and by task_id
\* otherwise; a reference that names no live task of the chat removes
\* nothing and is answered as not found; never more than one task goes.
C23_DoneRemovesTheNamedTask ==
    \A c \in Chats, task_ref \in Refs :
        LET r == handle_wdone(DB, c, task_ref)
        IN  /\ r.db.tasks = tasks \ Named(c, task_ref)
            /\ Cardinality(tasks \ r.db.tasks) <= 1
            /\ r.ret # None
            /\ Named(c, task_ref) = {} <=> r.ret[1].reply = "not found"
            /\ \A t \in Named(c, task_ref) : r.ret[1].seq_num = t.seq_num

\* C24: a !wreminder-set whose expression has not exactly 5 fields, or has
\* a field the scheduler rejects, changes nothing: the stored reminders and
\* the armed jobs are what they were before the command; an expression that
\* is taken has 5 fields the scheduler accepts.
C24_RejectedSetChangesNothing ==
    [][last'.op = "handle_wreminder_set" =>
           IF last'.ret = None
           THEN reminders' = reminders /\ jobs' = jobs
           ELSE Len(last'.ret[1]) = 5 /\ ~CronTriggerRaises(last'.ret[1])]_vars

\* C24 witness: a !wreminder-set was rejected in a chat whose reminder is
\* stored, enabled and armed.
C24_Witness ==
    /\ last.op = "handle_wreminder_set"
    /\ last.ret = None
    /\ last.pre # None
    /\ Config(last.chat_id) = last.pre
    /\ Config(last.chat_id)[1].enabled
    /\ JobsOf(last.chat_id) # {}

\* ---------------------------------------------------------------------
\* Handlers and callbacks in flight on the event loop
\* ---------------------------------------------------------------------

\* How many coroutines may be suspended at once.
MaxInflight == 2

\* The chat whose handlers and callbacks are followed through their awaits.
InflightChats == {7}

\* The !wdone references sent while other handlers are suspended.
InflightRefs ==
    {r \in Refs : r.hashes = 0 /\ r.parts \in {<<"1">>, <<"2">>, <<"3">>, <<TooLarge>>,
                                                <<"repo", "merge_requests", "45">>}}

\* The !wadd links sent while other handlers are suspended.
InflightUrls == {u \in BotUrls : u.scheme # "HTTP"}

\* The handlers call the store and the scheduler synchronously (each store
\* operation opens, commits and closes its own connection) and await only
\* the reply: what a handler does before its await is one step, which
\* leaves the coroutine suspended with the reply it is about to send.
Coroutine(op, chat_id, reply, seq_num) ==
    [op |-> op, chat_id |-> chat_id, reply |-> reply, seq_num |-> seq_num]

Await(k) ==
    /\ Cardinality(awaiting) < MaxInflight
    /\ awaiting' = awaiting \cup {k}
    /\ last' = Call(k.op, k.chat_id, k.seq_num, "", <<>>, Some(k.reply))

AsyncWadd ==
    \E chat_id \in InflightChats, url \in InflightUrls :
        LET r == handle_wadd(DB, chat_id, url, None, "@alice")
        IN  /\ WADD_PATTERN(url)
            /\ r.ret.reply = "added" => sqlite_sequence < MaxTasks
            /\ Commit(r.db)
            /\ issued' = IF r.ret.reply # "added" THEN issued
                         ELSE [issued EXCEPT ![chat_id] =
                                  Append(@, [seq_num |-> r.ret.seq_num,
                                             task_id |-> extract_task_id(url)[1]])]
            /\ Await(Coroutine("handle_wadd", chat_id, r.ret.reply, r.ret.seq_num))
            /\ UNCHANGED <<reminders, jobs, input>>

\* A handler that raised never reaches its await.
AsyncWdone ==
    \E chat_id \in InflightChats, task_ref \in InflightRefs :
        LET r == handle_wdone(DB, chat_id, task_ref)
        IN  /\ Commit(r.db)
            /\ IF r.ret = None
               THEN /\ last' = Call("handle_wdone", chat_id, 0, "", <<>>, None)
                    /\ UNCHANGED awaiting
               ELSE Await(Coroutine("handle_wdone", chat_id, r.ret[1].reply,
                                    r.ret[1].seq_num))
            /\ UNCHANGED <<reminders, jobs, issued, input>>

AsyncReminderSet ==
    \E chat_id \in InflightChats, cron_expression \in CronExpressions :
        LET valid == Len(cron_expression) = 5 /\ ~CronTriggerRaises(cron_expression)
            j == add_reminder_job(jobs, chat_id, cron_expression)
        IN  /\ reminders' = IF valid
                            THEN set_reminder(reminders, chat_id, cron_expression, TRUE)
                            ELSE reminders
            /\ jobs' = IF valid THEN j.jobs ELSE jobs
            /\ Await(Coroutine("handle_wreminder_set", chat_id,
                               IF valid /\ ~j.raised THEN "set" ELSE "rejected", 0))
            /\ UNCHANGED <<store, issued, input>>

\* !wreminder-off with an await between the store and the scheduler.
AsyncReminderOff_awaits_between ==
    \E chat_id \in InflightChats :
        LET r == disable_reminder(reminders, chat_id)
        IN  /\ reminders' = r.rows
            /\ jobs' = jobs
            /\ Await(Coroutine("handle_wreminder_off", chat_id,
                               IF r.ret THEN "disabled" ELSE "no reminder", 0))
            /\ UNCHANGED <<store, issued, input>>

AsyncReminderOff ==
    \E chat_id \in InflightChats :
        LET r == disable_reminder(reminders, chat_id)
        IN  /\ reminders' = r.rows
            /\ jobs' = IF r.ret THEN remove_reminder_job(jobs, chat_id) ELSE jobs
            /\ Await(Coroutine("handle_wreminder_off", chat_id,
                               IF r.ret THEN "disabled" ELSE "no reminder", 0))
            /\ UNCHANGED <<store, issued, input>>

\* The callback of an armed job: it awaits send_message only when it has
\* built its message.
AsyncFire ==
    \E j \in jobs :
        /\ IF send_reminder(DB, j.chat_id) = None
           THEN /\ last' = Call("send_reminder", j.chat_id, 0, "", <<>>, None)
                /\ UNCHANGED awaiting
           ELSE Await(Coroutine("send_reminder", j.chat_id, "reminder", 0))
        /\ UNCHANGED <<store, reminders, jobs, issued, input>>

\* The reply has been sent: the coroutine logs and ends.
Resume ==
    \E k \in awaiting :
        /\ awaiting' = awaiting \ {k}
        /\ last' = Call("logger.info", k.chat_id, 0, "", <<>>, None)
        /\ UNCHANGED <<store, reminders, jobs, input, issued>>

NextAsync ==
    \/ AsyncWadd
    \/ AsyncWdone
    \/ AsyncReminderSet
    \/ AsyncReminderOff
    \/ AsyncFire
    \/ Resume

SpecAsync == Init /\ [][NextAsync]_vars

\* C25: with handlers and callbacks suspended at their awaits in any
\* order, every armed job is the enabled config of its chat and the other
\* way round, no two adds of a chat got the same seq_num, and what a
\* suspended handler did to the store is there for every later operation:
\* the counter is past the number a suspended add got, the task a suspended
\* done removed is not live, the config a suspended set or off wrote exists.
C25_InterleavingAtAwaitsOnly ==
    /\ \A c \in Chats :
           /\ JobsOf(c) # {} <=> (Config(c) # None /\ Config(c)[1].enabled)
           /\ \A j \in JobsOf(c) : j.cron_expression = Config(c)[1].cron_expression
           /\ \A i, j \in DOMAIN issued[c] :
                  issued[c][i].seq_num = issued[c][j].seq_num => i = j
    /\ \A k \in awaiting :
           /\ (k.op = "handle_wadd" /\ k.reply = "added") =>
                  /\ \E r \in seq_counters :
                         r.chat_id = k.chat_id /\ r.next_num > k.seq_num
                  /\ \E i \in DOMAIN issued[k.chat_id] :
                         issued[k.chat_id][i].seq_num = k.seq_num
           /\ (k.op = "handle_wdone" /\ k.reply = "Removed") =>
                  \A t \in Live(k.chat_id) : t.seq_num # k.seq_num
           /\ (k.op \in {"handle_wreminder_set", "handle_wreminder_off"}
                   /\ k.reply \in {"set", "disabled"}) =>
                  Config(k.chat_id) # None

\* C25 witness: a done has just removed the task of an add whose reply is
\* still awaited, in a chat whose reminder is armed.
C25_Witness ==
    /\ last.op = "handle_wdone" /\ last.ret = Some("Removed")
    /\ \E k \in awaiting :
           /\ k.op = "handle_wadd" /\ k.reply = "added"
           /\ k.chat_id = last.chat_id /\ k.seq_num = last.seq_num
    /\ \E k \in awaiting : k.op = "handle_wdone" /\ k.seq_num = last.seq_num
    /\ JobsOf(last.chat_id) # {}

\* C26: a firing of a chat's job changes no task, no assignee row, no
\* counter, no reminder config and no job (whatever it raises is caught in
\* the callback), and sends nothing when the chat has no live task.
C26_FiringIsReadOnlyAndSilentWhenEmpty ==
    [][last'.op = "send_reminder" =>
           /\ store' = store
           /\ reminders' = reminders
           /\ jobs' = jobs
           /\ Live(last'.chat_id) = {} => last'.ret = None]_vars

\* C26 witness: the job of a chat with an empty queue has fired and sent
\* nothing, while another chat holds a live task.
C26_Witness ==
    /\ last.op = "send_reminder"
    /\ Live(last.chat_id) = {}
    /\ last.ret = None
    /\ JobsOf(last.chat_id) # {}
    /\ \E c \in Chats \ {last.chat_id} : Live(c) # {}

\* C27: the counter row of a chat is greater than every seq_num issued in
\* the chat, so the number the next add takes is the seq_num of no live
\* task, and an add is refused exactly when its task_id is live in the chat.
C27_AddRefusedOnlyForLiveTaskId ==
    \A c \in Chats :
        /\ \A i \in DOMAIN issued[c] :
               /\ \E r \in seq_counters : r.chat_id = c
               /\ \A r \in seq_counters :
                      r.chat_id = c => r.next_num > issued[c][i].seq_num
        /\ \A t \in Live(c) : t.seq_num # _get_next_seq_num(DB, c).ret
        /\ \A s \in Submissions, a \in AssigneeLists :
               LET r == add_task(DB, c, s.task_id, s.url, a, s.created_by)
               IN  /\ r.ret = None <=> IsLive(DB, c, s.task_id)
                   /\ r.ret # None => \A t \in Live(c) : t.seq_num # r.ret[1]

\* C27 witness: after an add, a removal and a second add in a chat, an add
\* of the live task_id has been refused while the chat's counter is at 3.
C27_Witness ==
    /\ last.op = "add_task" /\ last.ret = None
    /\ Len(issued[last.chat_id]) = 2
    /\ Cardinality(Live(last.chat_id)) = 1
    /\ IsLive(DB, last.chat_id, last.task_id)
    /\ [chat_id |-> last.chat_id, next_num |-> 3] \in seq_counters

\* C28: every row of task_assignees references a live task, so a removal
\* leaves no row of the removed task's id in the relation.
C28_AssigneeRowsReferenceLiveTasks ==
    /\ \A r \in task_assignees : \E t \in tasks : t.id = r.task_id
    /\ (last.op \in {"remove_task_by_seq", "remove_task_by_id"} /\ last.ret # None) =>
           AssigneeRows(DB, last.ret[1].id) = {}

Handles(assignees) == {assignees[i] : i \in DOMAIN assignees}

\* C29: an internal id is given once.  Every id in tasks and in
\* task_assignees is at most sqlite_sequence, which never goes down, and a
\* new task gets an id above it; the assignees listed for a new task are
\* handles of its add, those returned by an update are handles of that
\* update, and the rows of a live task change in no other step.
C29_InternalIdsNeverReused ==
    /\ [](/\ \A t \in tasks : t.id <= sqlite_sequence
          /\ \A r \in task_assignees : r.task_id <= sqlite_sequence
          /\ \A t, u \in tasks : t.id = u.id => t = u
          /\ \A c \in Chats, s \in Submissions, a \in AssigneeLists :
                 LET r == add_task(DB, c, s.task_id, s.url, a, s.created_by)
                     ts == get_tasks(r.db, c)
                 IN  r.ret # None =>
                         \A i \in DOMAIN ts :
                             ts[i].seq_num = r.ret[1] =>
                                 /\ ts[i].id > sqlite_sequence
                                 /\ Handles(ts[i].assignees) \subseteq Handles(a)
          /\ \A t \in tasks, b \in AssigneeLists :
                 LET r == update_task_assignees_by_seq(DB, t.chat_id, t.seq_num, b)
                 IN  Handles(r.ret[1].assignees) \subseteq Handles(b))
    /\ [][/\ sqlite_sequence' >= sqlite_sequence
          /\ \A t \in tasks' :
                 IF \E u \in tasks : u.id = t.id
                 THEN {r \in task_assignees' : r.task_id = t.id}
                          # {r \in task_assignees : r.task_id = t.id}
                      => /\ last'.op \in {"update_task_assignees_by_seq",
                                          "update_task_assignees_by_id"}
                         /\ last'.ret # None
                         /\ last'.ret[1].id = t.id
                 ELSE t.id > sqlite_sequence]_vars

\* C29 witness: a task added after the removal of a task with assignees,
\* whose rows are still in task_assignees, has a new id and lists none of
\* the removed task's handles.
C29_Witness ==
    /\ last.op = "add_task" /\ last.ret # None
    /\ \E t \in Live(last.chat_id), r \in task_assignees :
           /\ t.seq_num = last.ret[1]
           /\ \A u \in tasks : u.id # r.task_id
           /\ t.id > r.task_id
           /\ r.assignee \notin Handles(_get_task_assignees(DB, t.id))

\* The assignee lists of the calls below: those of the actions, and lists
\* that begin with an empty handle.
RestartLists == AssigneeLists \cup {<<"">>, <<"", "@a">>}

Restarted(db) == _migrate_assignees(db) = db

\* C30: the migration a restart re-runs changes nothing in a store this
\* code has written: not in any reachable store, and not in the store left
\* by one more add, update (an update to [] included) or removal.
C30_RestartKeepsAssignees ==
    /\ Restarted(DB)
    /\ \A c \in Chats : get_tasks(_migrate_assignees(DB), c) = get_tasks(DB, c)
    /\ last.op = "main" => last.ret = Some(0)
    /\ \A c \in Chats, s \in Submissions, b \in RestartLists :
           Restarted(add_task(DB, c, s.task_id, s.url, b, s.created_by).db)
    /\ \A t \in tasks :
           /\ Restarted(remove_task_by_seq(DB, t.chat_id, t.seq_num).db)
           /\ Restarted(remove_task_by_id(DB, t.chat_id, t.task_id).db)
           /\ \A b \in RestartLists :
                  /\ Restarted(update_task_assignees_by_seq(DB, t.chat_id, t.seq_num, b).db)
                  /\ Restarted(update_task_assignees_by_id(DB, t.chat_id, t.task_id, b).db)
           /\ get_tasks(update_task_assignees_by_seq(DB, t.chat_id, t.seq_num, <<>>).db,
                        t.chat_id)
                  = get_tasks(_migrate_assignees(
                        update_task_assignees_by_seq(DB, t.chat_id, t.seq_num, <<>>).db),
                        t.chat_id)

\* C30 witness: the process restarted on a store whose relation is empty
\* while a task that was given an id after another one is live and
\* unassigned, and the migration wrote no row.
C30_Witness ==
    /\ last.op = "main" /\ last.ret = Some(0)
    /\ task_assignees = {}
    /\ \E t \in tasks : t.assigned_to = "unassigned" /\ t.id > 1

\* ---------------------------------------------------------------------
\* Links to the same merge request or pull request
\* ---------------------------------------------------------------------

\* The links of the !wadd messages below: two hosts and groups for one
\* merge request, two owners for one pull request, another repository and
\* another number.
TaskLinks ==
    { [scheme |-> "http",
       segs |-> <<"gitlab.example.com", "group", "repo", "-", "merge_requests", "45">>],
      [scheme |-> "https",
       segs |-> <<"gitlab.other.org", "team", "sub", "repo", "-", "merge_requests", "45">>],
      [scheme |-> "https", segs |-> <<"github.com", "group", "repo", "pull", "45">>],
      [scheme |-> "https", segs |-> <<"github.com", "owner", "repo", "pull", "45">>],
      [scheme |-> "https", segs |-> <<"github.com", "group", "other", "pull", "45">>],
      [scheme |-> "https", segs |-> <<"github.com", "group", "repo", "pull", "46">>] }

\* The !wdone references sent with them: sequence numbers.
LinkRefs == {r \in Refs : r.hashes = 0 /\ r.parts \in {<<"1">>, <<"2">>, <<"3">>}}

\* The chat the messages are sent in.
LinkChats == {7}

\* A !wadd message with one of the links and no user.
HandleWaddLink ==
    \E chat_id \in LinkChats, url \in TaskLinks :
        LET r == handle_wadd(DB, chat_id, url, None, "@alice")
        IN  /\ WADD_PATTERN(url)
            /\ r.ret.reply = "added" => sqlite_sequence < MaxTasks
            /\ Commit(r.db)
            /\ issued' = IF r.ret.reply # "added" THEN issued
                         ELSE [issued EXCEPT ![chat_id] =
                                  Append(@, [seq_num |-> r.ret.seq_num,
                                             task_id |-> extract_task_id(url)[1]])]
            /\ last' = Call("handle_wadd", chat_id, 0, "", url, Some(r.ret))
            /\ UNCHANGED <<reminders, jobs, input>>

NextLinks ==
    \/ (HandleWaddLink /\ UNCHANGED awaiting)
    \/ (HandleWdone /\ last'.chat_id \in LinkChats /\ last'.pre[1] \in LinkRefs
            /\ UNCHANGED awaiting)

SpecLinks == Init /\ [][NextLinks]_vars

\* The parts of a link as a reader names them: the host, the group or
\* owner path, the repository, the kind and the number.
HostOf(url) == url.segs[1]
NumberOf(url) == LeadingDigits(url.segs[Len(url.segs)])
KindOf(url) == url.segs[Len(url.segs) - 1]
RepoAt(url) == IF KindOf(url) = "pull" THEN Len(url.segs) - 2 ELSE Len(url.segs) - 3
RepoOf(url) == url.segs[RepoAt(url)]
GroupOf(url) == SubSeq(url.segs, 2, RepoAt(url) - 1)
SameTask(u, v) ==
    RepoOf(u) = RepoOf(v) /\ KindOf(u) = KindOf(v) /\ NumberOf(u) = NumberOf(v)

\* C31: two links with the same repository, kind and number have the same
\* task_id whatever their host and group or owner, and links that differ
\* in one of the three have different task_ids.  While the task of a link
\* is live in a chat, a !wadd of a link to the same task is answered
\* "already exists" and leaves the store as it was; a !wadd of a link to
\* another task that is not live is added, and both are live after it; a
\* task live in another chat refuses nothing.
C31_TaskIdIgnoresHostAndGroup ==
    /\ \A u, v \in TaskLinks :
           /\ extract_task_id(u) # None
           /\ SameTask(u, v) <=> extract_task_id(u) = extract_task_id(v)
    /\ \A c \in Chats, v \in TaskLinks, a \in Users :
           LET second == extract_task_id(v)[1]
               r == handle_wadd(DB, c, v, a, "@alice")
               reply == r.ret.reply
           IN  /\ reply = "already exists" <=> IsLive(DB, c, second)
               /\ \A t \in Live(c), u \in TaskLinks :
                   t.task_id = extract_task_id(u)[1] =>
                       IF SameTask(u, v)
                       THEN reply = "already exists" /\ r.db = DB
                       ELSE /\ reply = "added" <=> ~IsLive(DB, c, second)
                            /\ reply = "added" =>
                                   /\ IsLive(r.db, c, t.task_id)
                                   /\ IsLive(r.db, c, second)
                                   /\ Cardinality(r.db.tasks) = Cardinality(tasks) + 1

\* C31 witness: a !wadd has been refused as already existing; the live task
\* with its task_id came from a link with another host and another group,
\* and a task of another repository, kind or number is live beside it.
C31_Witness ==
    /\ last.op = "handle_wadd" /\ last.ret[1].reply = "already exists"
    /\ \E t \in Live(last.chat_id) :
           /\ t.task_id = extract_task_id(last.pre)[1]
           /\ HostOf(t.url) # HostOf(last.pre)
           /\ GroupOf(t.url) # GroupOf(last.pre)
           /\ \E o \in Live(last.chat_id) : ~SameTask(o.url, t.url)

====
